---- MODULE Spec2Model ----
(***************************************************************************)
(* Billing ledger of the Telegram voice translator (src/app.py): the       *)
(* CryptoCloud postback handler, the voice-message metering branch of the  *)
(* Telegram webhook and the invoice purchase branch, as request handlers   *)
(* that share one database and interleave at the granularity of their      *)
(* database statements (every db.query / attribute refresh is a read of    *)
(* the committed state, every db.commit() a write of the changed columns). *)
(***************************************************************************)
EXTENDS Integers, Sequences, FiniteSets, TLC

(* ------------------------------ bounds --------------------------------- *)
\* handler slots; each slot serves one request
NumHandlers == 2
\* telegram ids 1..NumAccounts
NumAccounts == 2
\* the clock of time.time() runs over 0..MaxTime
MaxTime == 1
\* invoices the processor may issue on top of the stored ones
MaxIssued == 2

Handlers == 1..NumHandlers
Accounts == 1..NumAccounts

(* --------------------------- configuration ----------------------------- *)
TRIAL_LIMIT == 5
TRIAL_MAX_SECONDS_PER_MESSAGE == 60

PACKAGES ==
    [P30  |-> [usd |-> 3,  minutes |-> 30],
     P60  |-> [usd |-> 8,  minutes |-> 60],
     P180 |-> [usd |-> 20, minutes |-> 180],
     P600 |-> [usd |-> 50, minutes |-> 600]]

\* a package code that is (no longer) in PACKAGES
StaleCode == "P7"

(* ------------------------------- values -------------------------------- *)
\* order ids are f"{chat_id}_{package_code}_{int(time.time())}"; the empty
\* string is the record NoOrder, a whitespace-only string is BlankOrder
OrderId(chat, pkg, ts) == [chat |-> chat, pkg |-> pkg, ts |-> ts]
NoOrder == OrderId(0, "", 0)
BlankOrder == OrderId(0, " ", 0)
BogusOrder == OrderId(0, "P30", 0)

\* invoice uuids of the processor are 1, 2, ...; 0 is the empty string
NoUuid == 0
BogusUuid == 99

\* str.strip() of an order id field
StripOrder(o) == IF o = BlankOrder THEN NoOrder ELSE o

\* (s or "").lower().strip() on the status vocabulary of the processor
LowerStrip(s) ==
    CASE s = "SUCCESS"  -> "success"
      [] s = " success " -> "success"
      [] s = "Paid"     -> "paid"
      [] s = "PAID"     -> "paid"
      [] s = " "        -> ""
      [] s = "Confirmed" -> "confirmed"
      [] OTHER          -> s

NoUser == [exists |-> FALSE, trial_left |-> 0, balance_seconds |-> 0]
UserRow(t, b) == [exists |-> TRUE, trial_left |-> t, balance_seconds |-> b]

Payment(chat, order, uuid, code, usd, st) ==
    [telegram_id |-> chat, order_id |-> order, invoice_id |-> uuid,
     package_code |-> code, amount_usd |-> usd, status |-> st]

VARIABLES
    users,      \* table users: telegram_id -> row
    payments,   \* table payments: sequence of rows, index = primary key
    users0,     \* the users table at the start (never changes)
    crypto_env, \* BASE_URL and the CRYPTOCLOUD_* variables are all set
    now,        \* int(time.time())
    issued,     \* number of invoices the processor has created so far
    pc,         \* per handler: position in its code
    req,        \* per handler: the request it serves
    loc,        \* per handler: objects loaded in its session and locals
    res         \* per handler: what it answered / sent

vars == <<users, payments, users0, crypto_env, now, issued, pc, req, loc, res>>

db == <<users, payments>>
world == <<users0, crypto_env, now, issued>>

(* ----------------------------- requests -------------------------------- *)
NoReq == [kind |-> "none", chat |-> 0, duration |-> 0, code |-> "",
          json_ok |-> TRUE, token_ok |-> FALSE, order_id |-> NoOrder,
          invoice_uuid |-> NoUuid, status |-> "", invoice_status |-> "",
          raw_status |-> "", raw_invoice_status |-> ""]

NoLoc == [pay |-> 0, telegram_id |-> 0, package_code |-> "",
          trial_left |-> 0, balance_seconds |-> 0, deduct |-> 0,
          order_id |-> NoOrder, invoice_uuid |-> NoUuid, pay_url |-> 0]

\* http/reply: the HTTP answer; msg: the message sent to the user; pay: the
\* invoice the request was routed to or created; added: added_seconds
\* served: "balance" or "trial" when a voice message was let through
\* error: the exception that ended the purchase
NoRes == [http |-> 0, reply |-> "", msg |-> "", pay |-> 0, added |-> 0,
          served |-> "", error |-> ""]

(* --------------------------- token checking ---------------------------- *)
\* a token as the fields verify_jwt_hs256 looks at
Token(present, parts, sig_ok, exp) ==
    [present |-> present, parts |-> parts, sig_ok |-> sig_ok, exp |-> exp]

AbsentToken    == Token(FALSE, 0, FALSE, "none")
ValidToken     == Token(TRUE, 3, TRUE, "future")
NoExpToken     == Token(TRUE, 3, TRUE, "none")
MalformedToken == Token(TRUE, 2, TRUE, "future")
TamperedToken  == Token(TRUE, 3, FALSE, "future")
ExpiredToken   == Token(TRUE, 3, TRUE, "past")

verify_jwt_hs256(token) ==
    IF token.parts # 3 THEN "Bad JWT format"
    ELSE IF ~token.sig_ok THEN "JWT signature invalid"
    ELSE IF token.exp = "past" THEN "JWT expired"
    ELSE "payload"

\* the notification carries a token that verify_jwt_hs256 accepts
Authentic(token) == token.present /\ verify_jwt_hs256(token) = "payload"

(* ------------------------------ queries -------------------------------- *)
\* db.query(Payment).filter(Payment.order_id == order_id).first(); 0 is None
ByOrderId(order_id) ==
    LET hits == {i \in DOMAIN payments : payments[i].order_id = order_id}
    IN  IF hits = {} THEN 0 ELSE CHOOSE i \in hits : \A j \in hits : i <= j

\* the fallback query without its filter: the first row of the table
ByInvoiceIdAny(invoice_uuid) ==
    IF payments = << >> THEN 0 ELSE 1

\* db.query(Payment).filter(Payment.invoice_id == invoice_uuid).first()
ByInvoiceId(invoice_uuid) ==
    LET hits == {i \in DOMAIN payments : payments[i].invoice_id = invoice_uuid}
    IN  IF hits = {} THEN 0 ELSE CHOOSE i \in hits : \A j \in hits : i <= j

Max(a, b) == IF a >= b THEN a ELSE b

Say(r, text) == [r EXCEPT !.msg = text]
Answer(r, http, reply) == [r EXCEPT !.http = http, !.reply = reply]

(* ------------------------------- Init ---------------------------------- *)
\* the stored invoices at the start, both still "created": the first bought
\* by account 1, the second by account owner2 and possibly with a package
\* code that has left the package table
InitPayments(owner2, code2) ==
    << Payment(1, OrderId(1, "P30", 0), 1, "P30", 3, "created"),
       Payment(owner2, OrderId(owner2, code2, 0), 2, code2, 8, "created") >>

Order1 == OrderId(1, "P30", 0)
Order2 == OrderId(2, "P60", 0)

Idle ==
    /\ users0 = users
    /\ now = 0
    /\ issued = Len(payments)
    /\ pc = [h \in Handlers |-> "idle"]
    /\ req = [h \in Handlers |-> NoReq]
    /\ loc = [h \in Handlers |-> NoLoc]
    /\ res = [h \in Handlers |-> NoRes]

(* ------------------------- handler bookkeeping ------------------------- *)
Goto(h, label) == pc' = [pc EXCEPT ![h] = label]

\* the handler returns: its session closes, its locals are gone
Finish(h, r) ==
    /\ pc' = [pc EXCEPT ![h] = "done"]
    /\ loc' = [loc EXCEPT ![h] = NoLoc]
    /\ res' = [res EXCEPT ![h] = r]

(* ----------------------- cryptocloud_postback -------------------------- *)
\* a notification body: the fields cryptocloud_postback reads from it
Body(json_ok, token, order_id, invoice_uuid, status, invoice_status) ==
    [json_ok |-> json_ok, token |-> token, order_id |-> order_id,
     invoice_uuid |-> invoice_uuid, status |-> status,
     invoice_status |-> invoice_status]

\* paid_flag over the tokens paid, success, completed, confirmed
paid_flag_tokens(r) ==
    LET tokens == {"paid", "success", "completed", "confirmed"}
    IN  r.invoice_status \in tokens \/ r.status \in tokens

paid_flag(r) == r.invoice_status = "success" \/ r.status = "success"

\* Route without the "already paid" stop
RouteNoGuard(h, pay) ==
    IF pay = 0
    THEN Finish(h, Answer(res[h], 200, "not found")) /\ UNCHANGED db
    ELSE IF ~paid_flag(req[h])
    THEN Finish(h, Answer([res[h] EXCEPT !.pay = pay], 200, "not paid"))
         /\ UNCHANGED db
    ELSE /\ Goto(h, "mark_paid")
         /\ loc' = [loc EXCEPT ![h].pay = pay,
                               ![h].telegram_id = payments[pay].telegram_id,
                               ![h].package_code = payments[pay].package_code]
         /\ res' = [res EXCEPT ![h].pay = pay]
         /\ UNCHANGED db

\* Route with the reported status written by a notification that is not a
\* paid one, and any status but "created" taken as final
RouteFinalOnFail(h, pay) ==
    IF pay = 0
    THEN Finish(h, Answer(res[h], 200, "not found")) /\ UNCHANGED db
    ELSE IF payments[pay].status # "created"
    THEN Finish(h, Answer([res[h] EXCEPT !.pay = pay], 200, "already paid"))
         /\ UNCHANGED db
    ELSE IF ~paid_flag(req[h])
    THEN Finish(h, Answer([res[h] EXCEPT !.pay = pay], 200, "not paid"))
         /\ payments' = [payments EXCEPT ![pay].status = req[h].status]
         /\ UNCHANGED users
    ELSE /\ Goto(h, "mark_paid")
         /\ loc' = [loc EXCEPT ![h].pay = pay,
                               ![h].telegram_id = payments[pay].telegram_id,
                               ![h].package_code = payments[pay].package_code]
         /\ res' = [res EXCEPT ![h].pay = pay]
         /\ UNCHANGED db

\* what is kept of the invoice found: the handler stops when there is none
\* or when it is already paid, only touches updated_at when the
\* notification is not a paid one, and goes on to mark it paid otherwise
Route(h, pay) ==
    IF pay = 0
    THEN Finish(h, Answer(res[h], 200, "not found")) /\ UNCHANGED db
    ELSE IF payments[pay].status = "paid"
    THEN Finish(h, Answer([res[h] EXCEPT !.pay = pay], 200, "already paid"))
         /\ UNCHANGED db
    ELSE IF ~paid_flag(req[h])
    THEN Finish(h, Answer([res[h] EXCEPT !.pay = pay], 200, "not paid"))
         /\ UNCHANGED db
    ELSE /\ Goto(h, "mark_paid")
         /\ loc' = [loc EXCEPT ![h].pay = pay,
                               ![h].telegram_id = payments[pay].telegram_id,
                               ![h].package_code = payments[pay].package_code]
         /\ res' = [res EXCEPT ![h].pay = pay]
         /\ UNCHANGED db

\* the body is parsed, the token is checked (a failed check is only
\* printed), the fields are normalised and the invoice is looked up by
\* order_id
PostbackReceive(h, body) ==
    /\ pc[h] = "idle"
    /\ LET decoded == IF body.token.present
                      THEN verify_jwt_hs256(body.token) ELSE "skipped"
           r == [NoReq EXCEPT
                   !.kind = "postback",
                   !.json_ok = body.json_ok,
                   !.token_ok = Authentic(body.token),
                   !.order_id = StripOrder(body.order_id),
                   !.invoice_uuid = body.invoice_uuid,
                   !.status = LowerStrip(body.status),
                   !.invoice_status = LowerStrip(body.invoice_status),
                   !.raw_status = body.status,
                   !.raw_invoice_status = body.invoice_status]
       IN  /\ req' = [req EXCEPT ![h] = IF body.json_ok THEN r
                          ELSE [NoReq EXCEPT !.kind = "postback",
                                             !.json_ok = FALSE]]
           /\ IF ~body.json_ok
              THEN Finish(h, Answer(res[h], 200, "invalid json"))
              ELSE IF r.order_id = NoOrder
              THEN Finish(h, Answer(res[h], 200, "missing order_id"))
              ELSE Goto(h, "find_order") /\ UNCHANGED <<loc, res>>
    /\ UNCHANGED <<db, world>>

FindByOrder(h) ==
    /\ pc[h] = "find_order"
    /\ LET pay == ByOrderId(req[h].order_id)
       IN  IF pay = 0 /\ req[h].invoice_uuid # NoUuid
           THEN Goto(h, "find_invoice") /\ UNCHANGED <<db, loc, res>>
           ELSE Route(h, pay)
    /\ UNCHANGED <<world, req>>

FindByInvoice(h) ==
    /\ pc[h] = "find_invoice"
    /\ Route(h, ByInvoiceId(req[h].invoice_uuid))
    /\ UNCHANGED <<world, req>>

\* MarkPaid written as an update of the whole table
MarkPaidEveryRow(h) ==
    /\ pc[h] = "mark_paid"
    /\ payments' = [i \in DOMAIN payments |->
                       [payments[i] EXCEPT !.status = "paid"]]
    /\ Goto(h, "credit")
    /\ UNCHANGED <<users, world, req, loc, res>>

\* pay.status = "paid"; db.commit()
MarkPaid(h) ==
    /\ pc[h] = "mark_paid"
    /\ payments' = [payments EXCEPT ![loc[h].pay].status = "paid"]
    /\ Goto(h, "credit")
    /\ UNCHANGED <<users, world, req, loc, res>>

\* send_message / answer_callback reach Telegram or raise
Telegram == {"delivered", "raises"}

\* the except branch of the postback: the credit error is printed, the user
\* is told; when that send_message raises too the request ends in an
\* unhandled error
CreditError(h) ==
    \E tg \in Telegram :
        Finish(h, IF tg = "delivered"
                  THEN Answer(Say(res[h], "credit failed"), 200, "ok")
                  ELSE Answer(res[h], 500, "unhandled"))

\* credit_user_minutes up to the read of the balance at line 380: an unknown
\* package raises; get_or_create_user loads the owner's row, or inserts it
\* with the defaults when there is none (the owner of a stored invoice has a
\* row since the purchase, and rows are never deleted)
CreditLookup(h) ==
    /\ pc[h] = "credit"
    /\ IF loc[h].package_code \notin DOMAIN PACKAGES
       THEN CreditError(h) /\ UNCHANGED users
       ELSE /\ users' = [users EXCEPT ![loc[h].telegram_id] =
                            IF @.exists THEN @ ELSE UserRow(TRIAL_LIMIT, 0)]
            /\ Goto(h, "credit_write")
            /\ loc' = [loc EXCEPT ![h].balance_seconds =
                                    users'[loc[h].telegram_id].balance_seconds]
            /\ UNCHANGED res
    /\ UNCHANGED <<payments, world, req>>

\* seconds bought with a package
add_seconds(package_code) == PACKAGES[package_code].minutes * 60

\* CreditWrite with the credit undone when the user could not be told
CreditWriteRollback(h) ==
    /\ pc[h] = "credit_write"
    /\ LET add == add_seconds(loc[h].package_code)
           r == [res[h] EXCEPT !.added = add]
       IN  \E tg \in {"delivered", "raises", "raises twice"} :
             /\ users' = IF tg = "delivered"
                         THEN [users EXCEPT ![loc[h].telegram_id].balance_seconds =
                                              loc[h].balance_seconds + add]
                         ELSE users
             /\ Finish(h, CASE tg = "delivered" ->
                                Answer(Say(r, "credited"), 200, "ok")
                           [] tg = "raises" ->
                                Answer(Say(r, "credit failed"), 200, "ok")
                           [] OTHER -> Answer(r, 500, "unhandled"))
    /\ UNCHANGED <<payments, world, req>>

\* user.balance_seconds = <value read> + add_seconds; db.commit(); then the
\* user is told, and a failing send_message leads into the except branch
CreditWrite(h) ==
    /\ pc[h] = "credit_write"
    /\ LET add == add_seconds(loc[h].package_code)
           r == [res[h] EXCEPT !.added = add]
       IN  /\ users' = [users EXCEPT ![loc[h].telegram_id].balance_seconds =
                                        loc[h].balance_seconds + add]
           /\ \E tg \in {"delivered", "raises", "raises twice"} :
                Finish(h, CASE tg = "delivered" ->
                                 Answer(Say(r, "credited"), 200, "ok")
                            [] tg = "raises" ->
                                 Answer(Say(r, "credit failed"), 200, "ok")
                            [] OTHER -> Answer(r, 500, "unhandled"))
    /\ UNCHANGED <<payments, world, req>>

\* the process serving the request dies, or its database connection breaks,
\* in the middle of the handler: nothing further is written
Crash(h) ==
    /\ pc[h] \notin {"idle", "done"}
    /\ Finish(h, Answer(res[h], 500, "crashed"))
    /\ UNCHANGED <<db, world, req>>

(* ------------------- telegram_webhook: voice message ------------------- *)
\* the update carries a message of chat_id with a voice of the given
\* duration; get_or_create_user (line 450) finds the row or goes on to
\* insert it
VoiceReceive(h, chat_id, duration) ==
    /\ pc[h] = "idle"
    /\ req' = [req EXCEPT ![h] = [NoReq EXCEPT !.kind = "voice",
                                               !.chat = chat_id,
                                               !.duration = duration]]
    /\ Goto(h, IF users[chat_id].exists THEN "meter" ELSE "insert_user")
    /\ UNCHANGED <<db, world, loc, res>>

\* db.add(user); db.commit(): the primary key rejects a second row for the
\* same telegram_id, the exception ends the request in the outer except
InsertUser(h) ==
    /\ pc[h] = "insert_user"
    /\ IF users[req[h].chat].exists
       THEN Finish(h, Answer(res[h], 200, "webhook error")) /\ UNCHANGED users
       ELSE /\ users' = [users EXCEPT ![req[h].chat] = UserRow(TRIAL_LIMIT, 0)]
            /\ Goto(h, IF req[h].kind = "voice" THEN "meter" ELSE "buy")
            /\ UNCHANGED <<loc, res>>
    /\ UNCHANGED <<payments, world, req>>

\* MeterNoCover: the rules without the check that the balance covers the
\* deduction
MeterNoCover(h) ==
    /\ pc[h] = "meter"
    /\ LET user == users[req[h].chat]
           duration == req[h].duration
           has_paid_balance == user.balance_seconds > 0
           deduct == Max(1, duration)
           Deny(text) == Finish(h, Answer(Say(res[h], text), 200, "ok"))
       IN  IF has_paid_balance
           THEN /\ Goto(h, "debit_balance")
                /\ loc' = [loc EXCEPT ![h].balance_seconds = user.balance_seconds,
                                      ![h].deduct = deduct]
                /\ UNCHANGED res
           ELSE IF user.trial_left <= 0
                THEN Deny("trial finished")
                ELSE IF duration > TRIAL_MAX_SECONDS_PER_MESSAGE
                THEN Deny("trial cap")
                ELSE /\ Goto(h, "debit_trial")
                     /\ loc' = [loc EXCEPT ![h].trial_left = user.trial_left]
                     /\ UNCHANGED res
    /\ UNCHANGED <<db, world, req>>

\* MeterNoCap: the rules without the cap on a trial message
MeterNoCap(h) ==
    /\ pc[h] = "meter"
    /\ LET user == users[req[h].chat]
           duration == req[h].duration
           has_paid_balance == user.balance_seconds > 0
           deduct == Max(1, duration)
           Deny(text) == Finish(h, Answer(Say(res[h], text), 200, "ok"))
       IN  IF has_paid_balance
           THEN IF user.balance_seconds < deduct
                THEN Deny("insufficient balance")
                ELSE /\ Goto(h, "debit_balance")
                     /\ loc' = [loc EXCEPT ![h].balance_seconds = user.balance_seconds,
                                           ![h].deduct = deduct]
                     /\ UNCHANGED res
           ELSE IF user.trial_left <= 0
                THEN Deny("trial finished")
                ELSE /\ Goto(h, "debit_trial")
                     /\ loc' = [loc EXCEPT ![h].trial_left = user.trial_left]
                     /\ UNCHANGED res
    /\ UNCHANGED <<db, world, req>>

\* lines 481-511: the row is loaded and the balance/trial rules are applied
\* to the loaded values: a positive balance pays, by max(1, duration), when
\* it covers that; otherwise a trial message is used, when one is left and
\* the voice is within the cap
Meter(h) ==
    /\ pc[h] = "meter"
    /\ LET user == users[req[h].chat]
           duration == req[h].duration
           has_paid_balance == user.balance_seconds > 0
           deduct == Max(1, duration)
           Deny(text) == Finish(h, Answer(Say(res[h], text), 200, "ok"))
       IN  IF has_paid_balance
           THEN IF user.balance_seconds < deduct
                THEN Deny("insufficient balance")
                ELSE /\ Goto(h, "debit_balance")
                     /\ loc' = [loc EXCEPT ![h].balance_seconds = user.balance_seconds,
                                           ![h].deduct = deduct]
                     /\ UNCHANGED res
           ELSE IF user.trial_left <= 0
                THEN Deny("trial finished")
                ELSE IF duration > TRIAL_MAX_SECONDS_PER_MESSAGE
                THEN Deny("trial cap")
                ELSE /\ Goto(h, "debit_trial")
                     /\ loc' = [loc EXCEPT ![h].trial_left = user.trial_left]
                     /\ UNCHANGED res
    /\ UNCHANGED <<db, world, req>>

\* the voice is let through: the translation pipeline runs on it
Served(h, source) ==
    Finish(h, Answer([Say(res[h], "translation") EXCEPT !.served = source],
                     200, "ok"))

\* user.balance_seconds -= deduct; db.commit(): the loaded value less the
\* deduction is written
DebitBalance(h) ==
    /\ pc[h] = "debit_balance"
    /\ users' = [users EXCEPT ![req[h].chat].balance_seconds =
                                 loc[h].balance_seconds - loc[h].deduct]
    /\ Served(h, "balance")
    /\ UNCHANGED <<payments, world, req>>

\* DebitTrialByDuration: the trial counted in seconds instead of messages
DebitTrialByDuration(h) ==
    /\ pc[h] = "debit_trial"
    /\ users' = [users EXCEPT ![req[h].chat].trial_left =
                                 loc[h].trial_left - Max(1, req[h].duration)]
    /\ Served(h, "trial")
    /\ UNCHANGED <<payments, world, req>>

\* user.trial_left -= 1; db.commit()
DebitTrial(h) ==
    /\ pc[h] = "debit_trial"
    /\ users' = [users EXCEPT ![req[h].chat].trial_left = loc[h].trial_left - 1]
    /\ Served(h, "trial")
    /\ UNCHANGED <<payments, world, req>>

\* voice durations in seconds: none given, within the trial cap, above it
Durations == {0, 30, 61}

VoiceStep(h) ==
    \/ \E chat_id \in Accounts, duration \in Durations :
          VoiceReceive(h, chat_id, duration)
    \/ InsertUser(h)
    \/ Meter(h)
    \/ DebitBalance(h)
    \/ DebitTrial(h)

(* --------------------- telegram_webhook: purchase ---------------------- *)
\* the update carries the callback "buy_<package_code>" of chat_id;
\* get_or_create_user (line 552) finds the row or goes on to insert it
BuyReceive(h, chat_id, package_code) ==
    /\ pc[h] = "idle"
    /\ req' = [req EXCEPT ![h] = [NoReq EXCEPT !.kind = "buy",
                                               !.chat = chat_id,
                                               !.code = package_code]]
    /\ Goto(h, IF users[chat_id].exists THEN "buy" ELSE "insert_user")
    /\ UNCHANGED <<db, world, loc, res>>

\* the except branch of the purchase (lines 608-611): the callback is
\* answered and the user is sent the error text; when Telegram raises there
\* too, the outer except ends the request
BuyError(h, error) ==
    \E tg \in Telegram :
        Finish(h, IF tg = "delivered"
                  THEN Answer([Say(res[h], "invoice error")
                                 EXCEPT !.error = error], 200, "ok")
                  ELSE Answer([res[h] EXCEPT !.error = error],
                              200, "webhook error"))

\* lines 574-582 and the head of create_invoice: an unknown package is
\* answered with an alert; the order id is made of the chat, the package and
\* the second; missing configuration raises
BuyOrder(h) ==
    /\ pc[h] = "buy"
    /\ IF req[h].code \notin DOMAIN PACKAGES
       THEN Finish(h, Answer([Say(res[h], "unknown package")
                                EXCEPT !.error = "unknown package"], 200, "ok"))
       ELSE IF ~crypto_env
       THEN BuyError(h, "env vars missing")
       ELSE /\ Goto(h, "invoice_v2")
            /\ loc' = [loc EXCEPT ![h].order_id =
                                    OrderId(req[h].chat, req[h].code, now)]
            /\ UNCHANGED res
    /\ UNCHANGED <<db, world, req>>

\* what a call of an invoice/create endpoint can come to: an exception
\* (unreachable, timeout), an HTTP status >= 400, or a response that carries
\* the uuid of the created invoice and the link under some field, or not
UuidFields == {"result.uuid", "uuid", "invoice.uuid", "id", "none"}
LinkFields == {"result.link", "link", "result.pay_url", "pay_url",
               "invoice.link", "url", "none"}

\* the responses tried: every uuid field with the link in result.link, and
\* every link field with the uuid in result.uuid
Responses ==
    { [kind |-> k, uuid_at |-> "none", link_at |-> "none"] :
        k \in {"exception", "http error"} }
    \cup { [kind |-> "ok", uuid_at |-> u, link_at |-> "result.link"] :
             u \in UuidFields }
    \cup { [kind |-> "ok", uuid_at |-> "result.uuid", link_at |-> l] :
             l \in LinkFields }

\* the processor has created an invoice when it reports a uuid
Creates(r) == r.kind = "ok" /\ r.uuid_at # "none"

\* lines 352-356 and 357-363: the fields probed for the uuid and the link
invoice_uuid(r, created) ==
    IF r.uuid_at \in {"result.uuid", "uuid", "invoice.uuid"}
    THEN created ELSE NoUuid

pay_url(r) ==
    r.link_at \in {"result.link", "link", "result.pay_url", "pay_url",
                   "invoice.link"}

\* one pass of the loop over the endpoints: the call, the extraction, the
\* return when both the uuid and the link were found
Attempt(h, r, otherwise) ==
    /\ Creates(r) => issued < MaxIssued
    /\ issued' = IF Creates(r) THEN issued + 1 ELSE issued
    /\ IF r.kind = "ok" /\ invoice_uuid(r, issued') # NoUuid /\ pay_url(r)
       THEN /\ Goto(h, "persist")
            /\ loc' = [loc EXCEPT ![h].invoice_uuid = invoice_uuid(r, issued'),
                                  ![h].pay_url = 1]
            /\ UNCHANGED res
       ELSE otherwise

\* create_invoice, endpoint /api/v2/invoice/create
InvoiceV2(h) ==
    /\ pc[h] = "invoice_v2"
    /\ \E r \in Responses :
          Attempt(h, r, Goto(h, "invoice_v1") /\ UNCHANGED <<loc, res>>)
    /\ UNCHANGED <<db, users0, crypto_env, now, req>>

\* InvoiceV1Fabricating: a failed create_invoice still leads to a stored row
InvoiceV1Fabricating(h) ==
    /\ pc[h] = "invoice_v1"
    /\ \E r \in Responses :
          Attempt(h, r, /\ Goto(h, "persist")
                        /\ res' = [res EXCEPT ![h].error = "create invoice failed"]
                        /\ UNCHANGED loc)
    /\ UNCHANGED <<db, users0, crypto_env, now, req>>

\* create_invoice, endpoint /api/v1/invoice/create; when it fails too,
\* create_invoice raises
InvoiceV1(h) ==
    /\ pc[h] = "invoice_v1"
    /\ \E r \in Responses :
          Attempt(h, r, BuyError(h, "create invoice failed"))
    /\ UNCHANGED <<db, users0, crypto_env, now, req>>

\* lines 588-606: the row is added and committed (the unique index on
\* order_id rejects a second row with the same order id), then the user is
\* sent the link; an exception on the way leads into the except branch
Persist(h) ==
    /\ pc[h] = "persist"
    /\ IF ByOrderId(loc[h].order_id) # 0
       THEN BuyError(h, "integrity error") /\ UNCHANGED payments
       ELSE /\ payments' = Append(payments,
                   Payment(req[h].chat, loc[h].order_id, loc[h].invoice_uuid,
                           req[h].code, PACKAGES[req[h].code].usd, "created"))
            /\ LET r == [res[h] EXCEPT !.pay = Len(payments) + 1]
               IN  \E tg \in {"delivered", "raises", "raises twice"} :
                     Finish(h, CASE tg = "delivered" ->
                                      Answer(Say(r, "pay url"), 200, "ok")
                                 [] tg = "raises" ->
                                      Answer([Say(r, "invoice error")
                                                EXCEPT !.error = "telegram"],
                                             200, "ok")
                                 [] OTHER ->
                                      Answer([r EXCEPT !.error = "telegram"],
                                             200, "webhook error"))
    /\ UNCHANGED <<users, world, req>>

\* a second passes on the clock of time.time()
Tick ==
    /\ now < MaxTime
    /\ now' = now + 1
    /\ UNCHANGED <<db, users0, crypto_env, issued, pc, req, loc, res>>

\* the package codes a callback can carry
BuyCodes == {"P30", StaleCode}

BuyStep(h) ==
    \/ \E chat_id \in Accounts, package_code \in BuyCodes :
          BuyReceive(h, chat_id, package_code)
    \/ InsertUser(h)
    \/ BuyOrder(h)
    \/ InvoiceV2(h)
    \/ InvoiceV1(h)
    \/ Persist(h)

(* --------------------------- notifications ----------------------------- *)
\* bodies with a token the processor signed: paid notifications for the
\* stored invoices carrying both identifiers, only the invoice uuid, or an
\* order_id that matches nothing; notifications that are not paid ones;
\* identifiers of no stored invoice
SignedBodies ==
    { Body(TRUE, t, Order1, 1, st, "") :
        t \in {ValidToken, NoExpToken}, st \in {"success", "SUCCESS"} }
    \cup { Body(TRUE, ValidToken, o, 1, "", " success ") :
             o \in {NoOrder, BlankOrder} }
    \cup { Body(TRUE, ValidToken, BogusOrder, 1, "success", ""),
           Body(TRUE, ValidToken, Order2, 2, "success", "success"),
           Body(TRUE, ValidToken, Order1, 1, "fail", "fail"),
           Body(TRUE, ValidToken, Order1, 1, "Paid", ""),
           Body(TRUE, ValidToken, Order1, 1, "Confirmed", " "),
           Body(TRUE, ValidToken, BogusOrder, BogusUuid, "success", "") }

\* bodies whose token is missing, malformed, wrongly signed or expired
UnsignedBodies ==
    { Body(TRUE, t, Order1, 1, "success", "") :
        t \in {AbsentToken, MalformedToken, TamperedToken, ExpiredToken} }
    \cup { Body(TRUE, TamperedToken, Order2, 2, "", "success"),
           Body(TRUE, TamperedToken, Order1, 1, "fail", "") }

Notifications ==
    SignedBodies \cup UnsignedBodies
    \cup { Body(FALSE, AbsentToken, NoOrder, NoUuid, "", "") }

PostbackStep(h) ==
    \/ \E body \in Notifications : PostbackReceive(h, body)
    \/ FindByOrder(h)
    \/ FindByInvoice(h)
    \/ MarkPaid(h)
    \/ CreditLookup(h)
    \/ CreditWrite(h)

(* ---------------------------- specifications --------------------------- *)
\* no other handler is between its first and its last step
Alone(h) == \A g \in Handlers \ {h} : pc[g] \in {"idle", "done"}

\* postbacks only, the accounts as they are after the purchases
InitPay ==
    /\ users = [a \in Accounts |-> UserRow(TRIAL_LIMIT, 0)]
    /\ \E code2 \in {"P60", StaleCode} : payments = InitPayments(2, code2)
    /\ crypto_env = TRUE
    /\ Idle

NextPay == \E h \in Handlers : PostbackStep(h) \/ Crash(h)

\* concurrent deliveries of notifications
SpecPay == InitPay /\ [][NextPay]_vars

NextPaySeq == \E h \in Handlers : Alone(h) /\ PostbackStep(h)

\* deliveries one after another, each handler running to its end
SpecPaySeq == InitPay /\ [][NextPaySeq]_vars

\* voice messages only; the second account may have no row yet
InitUse ==
    /\ users \in [Accounts -> {NoUser, UserRow(TRIAL_LIMIT, 0), UserRow(1, 0),
                               UserRow(1, 120), UserRow(0, 0), UserRow(0, 30)}]
    /\ users[1] # NoUser
    /\ \A a \in Accounts : a > 1 => users[a] \in {NoUser, UserRow(0, 30)}
    /\ payments = InitPayments(1, "P60")
    /\ crypto_env = TRUE
    /\ Idle

NextUse == \E h \in Handlers : VoiceStep(h) \/ Crash(h)

\* concurrent voice messages
SpecUse == InitUse /\ [][NextUse]_vars

NextUseSeq == \E h \in Handlers : Alone(h) /\ VoiceStep(h)

\* voice messages one after another
SpecUseSeq == InitUse /\ [][NextUseSeq]_vars

\* paid notifications for the two stored invoices
PaidBodies == { Body(TRUE, ValidToken, Order1, 1, "success", ""),
                Body(TRUE, ValidToken, Order2, 2, "success", "success") }

InitLedger ==
    /\ users \in [Accounts -> {UserRow(1, 0), UserRow(0, 30)}]
    /\ payments = InitPayments(2, "P60")
    /\ crypto_env = TRUE
    /\ Idle

NextLedger ==
    \E h \in Handlers :
        \/ \E body \in PaidBodies : PostbackReceive(h, body)
        \/ FindByOrder(h) \/ MarkPaid(h) \/ CreditLookup(h) \/ CreditWrite(h)
        \/ \E chat_id \in Accounts, duration \in Durations :
              VoiceReceive(h, chat_id, duration)
        \/ Meter(h) \/ DebitBalance(h) \/ DebitTrial(h)
        \/ Crash(h)

\* voice messages and payment credits, concurrently
SpecLedger == InitLedger /\ [][NextLedger]_vars

\* purchases only, from the empty database
InitBuy ==
    /\ users = [a \in Accounts |-> NoUser]
    /\ payments = << >>
    /\ crypto_env \in BOOLEAN
    /\ Idle

NextBuy == (\E h \in Handlers : BuyStep(h) \/ Crash(h)) \/ Tick

\* concurrent purchases
SpecBuy == InitBuy /\ [][NextBuy]_vars

(* ------------------------ properties: payments ------------------------ *)
Known(i) == payments[i].package_code \in DOMAIN PACKAGES
Owner(i) == payments[i].telegram_id
Balance(a) == users[a].balance_seconds
Balance0(a) == users0[a].balance_seconds

\* handler h serves a notification that the handler takes for a paid one
\* and that carries the order_id of invoice i
PaidFor(h, i) ==
    /\ req[h].kind = "postback"
    /\ req[h].json_ok
    /\ paid_flag(req[h])
    /\ req[h].order_id = payments[i].order_id

\* handler h has returned (it was not killed on the way)
Returned(h) == pc[h] = "done" /\ res[h].reply # "crashed"

\* C1: deliveries one after another: once a paid notification carrying the
\* order_id of an invoice with a known package has been handled, N >= 1
\* times, the owner's balance is its initial balance plus minutes*60 of the
\* invoice's package: one credit, not N (each account owns one invoice
\* here, and nothing but postbacks runs).
C1_OneCreditForNDeliveries ==
    \A i \in DOMAIN payments :
        (Known(i) /\ \E h \in Handlers : Returned(h) /\ PaidFor(h, i))
        => Balance(Owner(i)) = Balance0(Owner(i))
                               + add_seconds(payments[i].package_code)

\* two deliveries of the same paid notification have both been handled
C1_Witness ==
    \E h, g \in Handlers :
        /\ h # g /\ req[h] = req[g]
        /\ Returned(h) /\ Returned(g)
        /\ PaidFor(h, 1) /\ res[h].added = 1800 /\ res[g].reply = "already paid"
        /\ Balance(1) = Balance0(1) + 1800

\* C2: two handlers that served the same paid notification for an invoice
\* concurrently leave the owner's balance increased by one package.
C2_ConcurrentDeliveriesCreditOnce ==
    \A i \in DOMAIN payments : \A h, g \in Handlers :
        (/\ Known(i) /\ h # g /\ req[h] = req[g]
         /\ PaidFor(h, i) /\ Returned(h) /\ Returned(g)
         /\ \A k \in Handlers \ {h, g} : pc[k] = "idle")
        => Balance(Owner(i)) = Balance0(Owner(i))
                               + add_seconds(payments[i].package_code)

\* C5: in every committed state an invoice with a known package is "paid"
\* exactly when its owner's balance holds the invoice's credit.
C5_CreditAndStatusTogether ==
    \A i \in DOMAIN payments :
        Known(i) =>
            /\ payments[i].status = "paid"
                 => Balance(Owner(i)) >= Balance0(Owner(i))
                                + add_seconds(payments[i].package_code)
            /\ payments[i].status # "paid"
                 => Balance(Owner(i)) = Balance0(Owner(i))

\* C6: no step of a handler whose notification has no token that
\* verify_jwt_hs256 accepts changes a balance or an invoice status.
C6_UnauthenticatedNeverMutates ==
    [][ \A h \in Handlers :
          (pc'[h] # pc[h] /\ req'[h].kind = "postback" /\ ~req'[h].token_ok)
          => /\ \A a \in Accounts : Balance(a)' = Balance(a)
             /\ \A i \in DOMAIN payments :
                    payments'[i].status = payments[i].status ]_vars

\* C7: once a paid notification that carries only the invoice uuid of a
\* stored invoice with a known package (no order_id) has been handled, the
\* invoice is paid and its owner holds the credit.
C7_FallbackByInvoiceUuid ==
    \A h \in Handlers : \A i \in DOMAIN payments :
        (/\ Returned(h) /\ req[h].kind = "postback" /\ req[h].json_ok
         /\ paid_flag(req[h]) /\ req[h].order_id = NoOrder
         /\ req[h].invoice_uuid = payments[i].invoice_id /\ Known(i))
        => /\ payments[i].status = "paid"
           /\ Balance(Owner(i)) = Balance0(Owner(i))
                                  + add_seconds(payments[i].package_code)

(* ------------------------ properties: metering ------------------------ *)
Trial(a) == users[a].trial_left
Trial0(a) == users0[a].trial_left

\* handler h serves a voice message of account a lasting d seconds
VoiceOf(h, a, d) ==
    req[h].kind = "voice" /\ req[h].chat = a /\ req[h].duration = d

Allowed(h) == Returned(h) /\ res[h].served # ""
Denied(h) == Returned(h) /\ res[h].served = "" /\ res[h].msg # ""

\* C3: an account without trial messages whose balance equals the cost
\* max(1, d) of one request: of two concurrent requests of d seconds one is
\* allowed and one denied, and the balance ends at 0.
C3_NoDoubleSpend ==
    \A a \in Accounts : \A d \in Durations : \A h, g \in Handlers :
        (/\ h # g /\ VoiceOf(h, a, d) /\ VoiceOf(g, a, d)
         /\ users0[a].exists /\ Trial0(a) = 0 /\ Balance0(a) = Max(1, d)
         /\ Returned(h) /\ Returned(g)
         /\ \A k \in Handlers \ {h, g} : pc[k] = "idle")
        => /\ Allowed(h) # Allowed(g)
           /\ Denied(h) # Denied(g)
           /\ Balance(a) = 0

\* C4: no balance and no trial counter is ever negative.
C4_NeverNegative ==
    \A a \in Accounts : Balance(a) >= 0 /\ Trial(a) >= 0

\* a credit and a debit have both been applied to the same account
C4_Witness ==
    \E h, g \in Handlers :
        /\ Returned(h) /\ req[h].kind = "postback" /\ res[h].added > 0
        /\ Returned(g) /\ res[g].served = "balance"
        /\ req[g].chat = Owner(res[h].pay)
        /\ Balance(req[g].chat) >= 0

\* the step by which handler h answers a voice message of account a
Answers(h, a) ==
    /\ req[h].kind = "voice" /\ req[h].chat = a
    /\ pc[h] \in {"meter", "debit_balance", "debit_trial"}
    /\ pc'[h] = "done"

\* C8 as stated: a request within the cap of an account with a trial message
\* left is served from the trial (trial one less, balance unchanged),
\* whatever the balance.
C8_TrialBeforeBalance ==
    [][ \A h \in Handlers : \A a \in Accounts :
          (/\ Answers(h, a) /\ Trial(a) > 0
           /\ req[h].duration <= TRIAL_MAX_SECONDS_PER_MESSAGE)
          => /\ res'[h].served = "trial"
             /\ Trial(a)' = Trial(a) - 1
             /\ Balance(a)' = Balance(a) ]_vars

\* C8 amended: with requests handled one at a time, a request within the
\* cap of an account with no balance and a trial message left is served from
\* the trial: trial one less whatever the duration, balance unchanged; a
\* request of an account with a positive balance never uses the trial: it is
\* served from the balance, by max(1, duration), when the balance covers it
\* and denied otherwise.
C8_BalanceBeforeTrial ==
    [][ \A h \in Handlers : \A a \in Accounts :
          Answers(h, a) =>
            /\ (/\ Balance(a) = 0 /\ Trial(a) > 0
                /\ req[h].duration <= TRIAL_MAX_SECONDS_PER_MESSAGE)
               => /\ res'[h].served = "trial"
                  /\ Trial(a)' = Trial(a) - 1
                  /\ Balance(a)' = Balance(a)
            /\ Balance(a) > 0
               => /\ Trial(a)' = Trial(a)
                  /\ IF Balance(a) >= Max(1, req[h].duration)
                     THEN /\ res'[h].served = "balance"
                          /\ Balance(a)' = Balance(a) - Max(1, req[h].duration)
                     ELSE /\ res'[h].served = ""
                          /\ Balance(a)' = Balance(a) ]_vars

\* the account with trial 1 and balance 120 has had a request of 30 seconds
\* served from the balance (balance 90, trial still 1), and a fresh account
\* without balance has had one served from its trial (trial one less)
C8_Witness ==
    \E h, g \in Handlers :
        /\ VoiceOf(h, 1, 30) /\ Allowed(h) /\ res[h].served = "balance"
        /\ users0[1] = UserRow(1, 120) /\ users[1] = UserRow(1, 90)
        /\ VoiceOf(g, 2, 30) /\ Allowed(g) /\ res[g].served = "trial"
        /\ ~users0[2].exists /\ users[2] = UserRow(TRIAL_LIMIT - 1, 0)

\* C9 as stated: a request above the cap of an account with a trial message
\* left is denied with the cap message and leaves the trial counter alone.
C9_CapDeniesWithTrialLeft ==
    [][ \A h \in Handlers : \A a \in Accounts :
          (/\ Answers(h, a) /\ Trial(a) > 0
           /\ req[h].duration > TRIAL_MAX_SECONDS_PER_MESSAGE)
          => /\ res'[h].served = "" /\ res'[h].msg = "trial cap"
             /\ Trial(a)' = Trial(a) ]_vars

\* C9 amended: with requests handled one at a time, a request above the cap
\* of an account with a trial message left and no balance is denied with the
\* cap message, which is not the message for a used-up trial, and neither
\* counter changes.
C9_CapDeniesWithoutBalance ==
    [][ \A h \in Handlers : \A a \in Accounts :
          (/\ Answers(h, a) /\ Trial(a) > 0 /\ Balance(a) = 0
           /\ req[h].duration > TRIAL_MAX_SECONDS_PER_MESSAGE)
          => /\ res'[h].served = "" /\ res'[h].msg = "trial cap"
             /\ res'[h].msg # "trial finished"
             /\ Trial(a)' = Trial(a) /\ Balance(a)' = Balance(a) ]_vars

\* a voice above the cap has been denied to an account with trial messages
C9_Witness ==
    \E h \in Handlers :
        /\ VoiceOf(h, 1, 61) /\ Denied(h) /\ res[h].msg = "trial cap"
        /\ users0[1] = UserRow(TRIAL_LIMIT, 0) /\ users[1] = users0[1]

(* ------------------------ properties: purchase ------------------------ *)
\* create_invoice raised in the purchase served by handler h
CreationFailed(h) ==
    /\ req[h].kind = "buy" /\ pc[h] = "done"
    /\ res[h].error \in {"create invoice failed", "env vars missing"}

\* the rows stored by purchases, by handler
Stored == {h \in Handlers : res[h].pay # 0 /\ req[h].kind = "buy"}

\* C10: a purchase whose create_invoice failed (exception, HTTP error or a
\* response without uuid and link under the probed fields, on both
\* endpoints) has stored no row and is answered with the error text, never
\* with the payment link, whenever Telegram takes the message; every stored
\* row belongs to a purchase whose create_invoice returned a uuid.
C10_FailedCreationLeavesNoRow ==
    /\ \A h \in Handlers :
          CreationFailed(h)
          => /\ res[h].pay = 0
             /\ res[h].msg # "pay url"
             /\ res[h].reply = "ok" => res[h].msg = "invoice error"
    /\ Len(payments) = Cardinality(Stored)
    /\ \A h \in Stored :
          /\ res[h].pay \in DOMAIN payments
          /\ payments[res[h].pay].telegram_id = req[h].chat
          /\ payments[res[h].pay].invoice_id # NoUuid
          /\ ~CreationFailed(h)

\* a purchase has failed at the processor with the configuration in place,
\* the user was told, and no row is stored
C10_Witness ==
    \E h \in Handlers :
        /\ CreationFailed(h) /\ crypto_env
        /\ res[h].msg = "invoice error"
        /\ payments = << >>

(* ------------- the paid status and later notifications ------------- *)
\* a handler is between the guard at line 667 and the end of the credit of
\* invoice i
Crediting(h, i) ==
    pc[h] \in {"mark_paid", "credit", "credit_write"} /\ loc[h].pay = i

\* invoice i is marked paid and the handler that marked it has finished
Settled(i) ==
    payments[i].status = "paid" /\ \A h \in Handlers : ~Crediting(h, i)

\* C11: once an invoice is marked paid and the handler that marked it has
\* finished, no step of any notification, paid or not, delivered in any
\* order and interleaving, changes its status, starts another credit of it
\* or changes its owner's balance.
C11_PaidIsTerminal ==
    [][\A i \in DOMAIN payments :
          Settled(i) => /\ Settled(i)'
                        /\ Balance(Owner(i))' = Balance(Owner(i))]_vars

\* invoice 1 has been credited, and a not-paid notification for it has been
\* answered after that
C11_Witness ==
    /\ Settled(1) /\ Balance(1) = Balance0(1) + add_seconds("P30")
    /\ \E h \in Handlers :
          /\ Returned(h) /\ res[h].pay = 1 /\ res[h].reply = "already paid"
          /\ ~paid_flag(req[h])

\* C12: deliveries one after another: once a paid notification carrying the
\* order_id of an invoice with a known package has been handled, whatever
\* not-paid, failed or unknown-status notifications came before or after
\* it, the invoice is marked paid and the owner's balance is its initial
\* balance plus the seconds of one package.
C12_PaidSupersedesNotPaid ==
    \A i \in DOMAIN payments : \A h \in Handlers :
        (Known(i) /\ Returned(h) /\ PaidFor(h, i))
        => /\ payments[i].status = "paid"
           /\ res[h].pay = i
           /\ Balance(Owner(i)) - Balance0(Owner(i))
                = add_seconds(payments[i].package_code)

\* a not-paid notification for invoice 1 was answered first, and the paid
\* notification that followed has credited the invoice
C12_Witness ==
    \E g, h \in Handlers :
        /\ Returned(g) /\ res[g].pay = 1 /\ res[g].reply = "not paid"
        /\ Returned(h) /\ PaidFor(h, 1) /\ res[h].added = add_seconds("P30")
        /\ payments[1].status = "paid"

\* the step in which handler h, serving a notification that is not a paid
\* one, finds invoice i not yet marked paid and returns (lines 671-675)
NotPaidReturn(h, i) ==
    /\ pc[h] \in {"find_order", "find_invoice"}
    /\ ~paid_flag(req[h])
    /\ payments[i].status # "paid"
    /\ pc'[h] = "done" /\ res'[h].pay = i

\* C13 as stated: a notification that is not a paid one, for a stored
\* invoice not yet paid, sets the invoice's status to the status it reports
\* and leaves the owner's balance unchanged.
C13_NotPaidRecordsReportedStatus ==
    [][\A h \in Handlers : \A i \in DOMAIN payments :
          NotPaidReturn(h, i)
          => /\ payments'[i].status = req[h].status
             /\ Balance(Owner(i))' = Balance(Owner(i))]_vars

\* C13: a notification that is not a paid one, for a stored invoice not yet
\* paid, leaves the invoice's status as it was (only updated_at is
\* refreshed) and leaves every balance unchanged.
C13_NotPaidKeepsStatus ==
    [][\A h \in Handlers : \A i \in DOMAIN payments :
          NotPaidReturn(h, i)
          => /\ payments'[i].status = payments[i].status
             /\ users' = users]_vars

\* a notification reporting "fail" for invoice 1 has been answered, and the
\* invoice is still "created" with its owner's balance untouched
C13_Witness ==
    \E h \in Handlers :
        /\ Returned(h) /\ res[h].pay = 1 /\ req[h].status = "fail"
        /\ ~paid_flag(req[h])
        /\ payments[1].status = "created"
        /\ Balance(1) = Balance0(1)

\* neither the order_id nor the invoice uuid of request r is that of a
\* stored invoice
Unresolvable(r) ==
    /\ r.kind = "postback" /\ r.json_ok
    /\ \A i \in DOMAIN payments :
          payments[i].order_id # r.order_id /\ payments[i].invoice_id # r.invoice_uuid

\* C14: every step of a handler serving a notification whose order_id and
\* invoice uuid both match no stored invoice leaves all rows and balances as
\* they are, and when the handler returns it answers 200 having touched no
\* invoice.
C14_UnresolvedIsNoOp ==
    [][\A h \in Handlers :
          (pc'[h] # pc[h] /\ Unresolvable(req'[h]))
          => /\ db' = db
             /\ pc'[h] # "mark_paid"
             /\ (pc'[h] = "done" /\ res'[h].reply # "crashed")
                  => res'[h].http = 200 /\ res'[h].pay = 0]_vars

\* a paid notification with an order_id and an invoice uuid unknown to the
\* system went through both lookups and has been acknowledged, with the
\* database as it was
C14_Witness ==
    \E h \in Handlers :
        /\ Returned(h) /\ Unresolvable(req[h]) /\ paid_flag(req[h])
        /\ req[h].order_id = BogusOrder /\ req[h].invoice_uuid = BogusUuid
        /\ res[h].http = 200
        /\ \A i \in DOMAIN payments : payments[i].status = "created"
        /\ users = users0

(* --------------------- the answer of the endpoint --------------------- *)
\* handler h has returned from a paid notification that it resolved to
\* invoice i, whose package_code is not in PACKAGES
StalePaid(h, i) ==
    /\ Returned(h) /\ req[h].kind = "postback" /\ paid_flag(req[h])
    /\ res[h].pay = i /\ ~Known(i)

\* C15: deliveries one after another: a paid notification for an invoice
\* whose package_code is not in the package table marks the invoice paid,
\* leaves its owner's balance as it was at the start, and is answered 200.
C15_StalePackageAcknowledged ==
    \A h \in Handlers : \A i \in DOMAIN payments :
        StalePaid(h, i)
        => /\ payments[i].status = "paid"
           /\ Balance(Owner(i)) = Balance0(Owner(i))
           /\ res[h].http = 200

\* C17: every notification with a parseable body that has been handled was
\* answered 200, whatever became of it.
C17_ParseableIsAcknowledged ==
    \A h \in Handlers :
        (Returned(h) /\ req[h].kind = "postback" /\ req[h].json_ok)
        => res[h].http = 200

(* ------------------ properties: a used-up trial ------------------ *)
\* C16 as stated: a request of an account without trial messages is served
\* from the balance, by max(1, duration), when the balance covers that, and
\* is otherwise, a balance of 0 included, denied with the
\* insufficient-balance message, neither counter changing.
C16_NoTrialDeniesInsufficient ==
    [][ \A h \in Handlers : \A a \in Accounts :
          (Answers(h, a) /\ Trial(a) = 0)
          => IF Balance(a) >= Max(1, req[h].duration)
             THEN /\ res'[h].served = "balance"
                  /\ Balance(a)' = Balance(a) - Max(1, req[h].duration)
             ELSE /\ res'[h].served = ""
                  /\ res'[h].msg = "insufficient balance"
                  /\ users'[a] = users[a] ]_vars

\* C16 amended: with requests handled one at a time, a request of an account
\* without trial messages is served from the balance, by max(1, duration),
\* when the balance covers that; with a positive balance that does not
\* cover it the request is denied with the insufficient-balance message;
\* with a balance of 0 it is denied with the message for a used-up trial;
\* a denial changes neither counter.
C16_NoTrialNoBalanceSaysTrialOver ==
    [][ \A h \in Handlers : \A a \in Accounts :
          (Answers(h, a) /\ Trial(a) = 0)
          => IF Balance(a) >= Max(1, req[h].duration)
             THEN /\ res'[h].served = "balance"
                  /\ Balance(a)' = Balance(a) - Max(1, req[h].duration)
                  /\ Trial(a)' = 0
             ELSE /\ res'[h].served = ""
                  /\ res'[h].msg = IF Balance(a) > 0
                                   THEN "insufficient balance"
                                   ELSE "trial finished"
                  /\ res'[h].msg \notin {"trial cap", ""}
                  /\ users'[a] = users[a] ]_vars

\* an account with no trial message and 30 seconds was denied a voice of 61
\* seconds for insufficient balance, and was served one of 30 seconds, which
\* took the balance to 0
C16_Witness ==
    \E h, g \in Handlers :
        /\ users0[1] = UserRow(0, 30)
        /\ VoiceOf(h, 1, 61) /\ Denied(h) /\ res[h].msg = "insufficient balance"
        /\ VoiceOf(g, 1, 30) /\ Allowed(g) /\ res[g].served = "balance"
        /\ users[1] = UserRow(0, 0)

(* ------------------- properties: issued invoices ------------------- *)
\* the row stored by the purchase of handler h
RowOf(h) == payments[res[h].pay]

\* create_invoice has returned in the purchase of handler h: the processor
\* has acknowledged an invoice under the order id the purchase was given
Acknowledged(h) ==
    /\ req[h].kind = "buy"
    /\ pc[h] = "persist" \/ h \in Stored

\* the order id given to the purchase of handler h at line 581
OrderGiven(h) ==
    IF pc[h] = "persist" THEN loc[h].order_id ELSE RowOf(h).order_id

\* C18: any two purchases whose invoice the processor has acknowledged were
\* given different order ids, two of the same account for the same package
\* within the same second included, and no two stored rows share an
\* order_id.
C18_OrderIdUnique ==
    /\ \A h, g \in Handlers :
          (h # g /\ Acknowledged(h) /\ Acknowledged(g))
          => OrderGiven(h) # OrderGiven(g)
    /\ \A i, j \in DOMAIN payments :
          i # j => payments[i].order_id # payments[j].order_id

\* C19: every stored row carries an invoice uuid that the processor has
\* issued and, with no notification delivered yet, the status "created";
\* a purchase still on its way to or inside create_invoice has stored
\* nothing; and a purchase that has sent the payment link has its row
\* committed, with the uuid and for the chat that asked.
C19_RowAfterAcknowledgement ==
    /\ \A i \in DOMAIN payments :
          /\ payments[i].invoice_id \in 1..issued
          /\ payments[i].status = "created"
    /\ \A h \in Handlers :
          /\ pc[h] \in {"buy", "invoice_v2", "invoice_v1", "persist"}
               => res[h].pay = 0
          /\ res[h].msg = "pay url"
               => /\ pc[h] = "done" /\ res[h].pay \in DOMAIN payments
                  /\ RowOf(h).telegram_id = req[h].chat
                  /\ RowOf(h).package_code = req[h].code
                  /\ RowOf(h).invoice_id # NoUuid

\* a purchase has stored its row, in status "created" and with the uuid the
\* processor issued last, and has sent the link
C19_Witness ==
    \E h \in Handlers :
        /\ res[h].msg = "pay url" /\ res[h].pay = 1
        /\ RowOf(h).invoice_id = issued /\ RowOf(h).status = "created"
        /\ issued > 0

(* ------------------- properties: the paid flag ------------------- *)
\* the spellings, among the strings notifications carry here, that are
\* "success" up to case and surrounding blanks
SuccessSpellings == {"success", "SUCCESS", " success "}

\* those that are one of paid, completed, confirmed up to case and blanks
OtherTokenSpellings == {"Paid", "PAID", "Confirmed"}

\* handler h has taken in a notification with a parseable body
Taken(h) == req[h].kind = "postback" /\ req[h].json_ok

\* handler h is crediting or has credited
Credits(h) ==
    pc[h] \in {"mark_paid", "credit", "credit_write"} \/ res[h].added > 0

\* C20 as stated: the flag is true exactly when a status the notification
\* reports is one of paid, success, completed, confirmed, up to case; a
\* notification whose flag is false credits nothing.
C20_FlagOnFourTokens ==
    \A h \in Handlers :
        Taken(h) =>
          /\ paid_flag(req[h])
               <=> \/ req[h].raw_status
                        \in SuccessSpellings \cup OtherTokenSpellings
                   \/ req[h].raw_invoice_status
                        \in SuccessSpellings \cup OtherTokenSpellings
          /\ ~paid_flag(req[h]) => ~Credits(h)

\* C20: the flag is true exactly when the status or the invoice_status of
\* the notification is "success" up to case and surrounding blanks; paid,
\* completed, confirmed, any other string and the empty string give a false
\* flag, and a notification whose flag is false credits nothing.
C20_FlagOnSuccessOnly ==
    \A h \in Handlers :
        Taken(h) =>
          /\ paid_flag(req[h])
               <=> \/ req[h].raw_status \in SuccessSpellings
                   \/ req[h].raw_invoice_status \in SuccessSpellings
          /\ ~paid_flag(req[h]) => ~Credits(h)

\* a notification reporting "Paid" for invoice 1 was answered without a
\* credit, one reporting "SUCCESS" has credited it
C20_Witness ==
    \E g, h \in Handlers :
        /\ Returned(g) /\ Taken(g) /\ req[g].raw_status = "Paid"
        /\ res[g].pay = 1 /\ res[g].added = 0
        /\ Returned(h) /\ Taken(h) /\ req[h].raw_status = "SUCCESS"
        /\ res[h].pay = 1 /\ res[h].added = add_seconds("P30")

(* ------------- properties: the message after a credit ------------- *)
\* handler h has committed the credit of invoice i and its send_message at
\* line 683 raised
ToldNothing(h, i) ==
    /\ Returned(h) /\ req[h].kind = "postback"
    /\ res[h].pay = i /\ res[h].added > 0
    /\ res[h].msg # "credited"

\* C21: deliveries one after another: when the message to the user failed
\* after the credit of an invoice was committed, the invoice is "paid", the
\* owner's balance holds exactly that one credit, and every other
\* notification handled for the invoice has credited nothing.
C21_FailedMessageKeepsCredit ==
    \A h \in Handlers : \A i \in DOMAIN payments :
        ToldNothing(h, i)
        => /\ payments[i].status = "paid"
           /\ Balance(Owner(i)) = Balance0(Owner(i)) + res[h].added
           /\ res[h].added = add_seconds(payments[i].package_code)
           /\ \A g \in Handlers \ {h} : res[g].pay = i => res[g].added = 0

\* the message after the credit of invoice 1 failed twice, the endpoint
\* answered 500, and the redelivered paid notification was answered as
\* already paid with the balance still holding the one credit
C21_Witness ==
    \E h, g \in Handlers :
        /\ h # g /\ ToldNothing(h, 1) /\ res[h].http = 500
        /\ Returned(g) /\ req[g] = req[h] /\ res[g].reply = "already paid"
        /\ Balance(1) = Balance0(1) + add_seconds("P30")

(* ---------------- properties: concurrent metering ---------------- *)
\* the requests of account a that were let through on the trial
TrialServed(a) ==
    {h \in Handlers : Allowed(h) /\ req[h].chat = a /\ res[h].served = "trial"}

\* C22: two concurrent requests within the cap of an account that had one
\* trial message and no balance end with exactly one of them allowed; and
\* an account never has more requests served on the trial than its trial
\* counter has gone down.
C22_TrialMeteringAtomic ==
    /\ \A a \in Accounts : \A h, g \in Handlers :
          (/\ h # g /\ users0[a] = UserRow(1, 0)
           /\ req[h].kind = "voice" /\ req[h].chat = a
           /\ req[g].kind = "voice" /\ req[g].chat = a
           /\ req[h].duration <= TRIAL_MAX_SECONDS_PER_MESSAGE
           /\ req[g].duration <= TRIAL_MAX_SECONDS_PER_MESSAGE
           /\ Returned(h) /\ Returned(g)
           /\ \A k \in Handlers \ {h, g} : pc[k] = "idle")
          => Allowed(h) # Allowed(g)
    /\ \A a \in Accounts :
          users0[a].exists
          => Cardinality(TrialServed(a)) <= Trial0(a) - Trial(a)

\* C23: when a credit of an invoice of account a and a request of a served
\* from the balance have both been carried out, and nothing else has run,
\* the balance of a is its initial balance plus the seconds credited less
\* the cost of the request.
C23_CreditAndDebitBothCount ==
    \A a \in Accounts : \A h, g \in Handlers :
        (/\ Returned(h) /\ req[h].kind = "postback"
         /\ res[h].pay \in DOMAIN payments /\ res[h].added > 0
         /\ Owner(res[h].pay) = a
         /\ Allowed(g) /\ req[g].kind = "voice" /\ req[g].chat = a
         /\ res[g].served = "balance"
         /\ \A k \in Handlers \ {h, g} : pc[k] = "idle")
        => Balance(a) = Balance0(a) + res[h].added - Max(1, req[g].duration)

(* ------------- properties: what a notification touches ------------- *)
\* rows p and q differ at most in the status
SameButStatus(p, q) == [p EXCEPT !.status = q.status] = q

\* rows u and v of users differ at most in balance_seconds
SameButBalance(u, v) == [u EXCEPT !.balance_seconds = v.balance_seconds] = v

\* C24: a step of a handler serving a notification adds and removes no row,
\* changes of the invoices at most the status of the one it resolved the
\* notification to, and of the accounts at most the balance_seconds of the
\* account stored on that invoice; trial_left of every account, and the
\* account, order_id, invoice_id, package_code and amount of every invoice
\* stay as they are.
C24_NotificationFrame ==
    [][\A h \in Handlers :
          (pc'[h] # pc[h] /\ req'[h].kind = "postback")
          => /\ DOMAIN payments' = DOMAIN payments
             /\ \A i \in DOMAIN payments :
                   \/ payments'[i] = payments[i]
                   \/ i = loc[h].pay /\ SameButStatus(payments[i], payments'[i])
             /\ \A a \in Accounts :
                   \/ users'[a] = users[a]
                   \/ /\ loc[h].pay \in DOMAIN payments
                      /\ a = Owner(loc[h].pay)
                      /\ SameButBalance(users[a], users'[a])]_vars

\* the notification for invoice 1 has been credited: invoice 1 differs from
\* what it was in the status only, its owner in the balance only, and
\* invoice 2 and the other account are as they were
C24_Witness ==
    \E h \in Handlers :
        /\ Returned(h) /\ req[h].kind = "postback"
        /\ res[h].pay = 1 /\ res[h].added > 0
        /\ payments[1] = Payment(1, Order1, 1, "P30", 3, "paid")
        /\ payments[2].status = "created"
        /\ users[1] = UserRow(TRIAL_LIMIT, add_seconds("P30"))
        /\ users[2] = users0[2]

(* ------------- properties: redelivery after a failed run ------------- *)
\* C25: handler runs may stop between their commits: an invoice with a known
\* package that is marked paid with no handler left working on it, which
\* is the state every redelivery is turned away from by the test at line
\* 667, has had its package seconds credited to its owner.
C25_NoPaidInvoiceWithoutCredit ==
    \A i \in DOMAIN payments :
        (Known(i) /\ Settled(i))
        => Balance(Owner(i)) >= Balance0(Owner(i))
                                + add_seconds(payments[i].package_code)

====
